---- MODULE Spec2Model ----
(***************************************************************************)
(* Lifecycle hooks of the Habitat supervisor                               *)
(* (components/sup/src/manager/service/hooks.rs).                          *)
(*                                                                         *)
(* Three state machines share the variables below:                         *)
(*   LoadSpec discovery: HookTable::load_hooks, on any table it returned,  *)
(*   Spec     HookTable::compile on a discovered table, one step per hook  *)
(*            kind in the order of the source,                             *)
(*   RunSpec  Hook::run: spawn, stream_output (standard output to its end, *)
(*            then standard error), wait, handle_exit.                     *)
(***************************************************************************)
EXTENDS Integers, Sequences, FiniteSets, TLC

(* ------------------------------------------------------------------ *)
(* Bounds of the model                                                 *)
(* ------------------------------------------------------------------ *)
\* largest configuration incarnation handed to compile
MaxInc == 2
\* most template files present in the template directory
MaxTemplates == 2
\* most lines a hook script writes (both streams together)
MaxLines == 3
\* lines a pipe holds before the writer blocks
PipeCap == 1

(* ------------------------------------------------------------------ *)
(* Hook kinds, Option                                                  *)
(* ------------------------------------------------------------------ *)
\* the fields in the order the struct declares them (lines 356-361)
KindOrder_declared ==
    <<"health_check", "init", "file_updated", "reconfigure", "run", "smoke_test">>

\* the fields of HookTable, in the order compile and load_hooks visit them
KindOrder ==
    <<"file_updated", "health_check", "init", "reconfigure", "run", "smoke_test">>

Kinds == {KindOrder[i] : i \in 1..Len(KindOrder)}

\* Hook::file_name of each kind
file_name(k) == k

None == <<>>
Some(x) == <<x>>
IsSome(o) == o /= None
Unwrap(o) == o[1]

\* HOOK_PERMISSIONS = 0o755
HOOK_PERMISSIONS == 493
\* mode of a file std::fs::File::create makes new (0o666 under umask 022)
CREATE_MODE == 420

\* Default for ExitCode
ExitCode_default == -1

VARIABLES
    \* HookTable: the six optional hooks and cfg_incarnation
    table, cfg_incarnation,
    \* the destination files, by path: None or [data, owner, mode]
    fs,
    \* the template directory as the last load_hooks found it
    tfs,
    \* position of the compile call in progress
    pc, idx, config,
    \* the compile call in progress or last returned
    call,
    \* Hook::run: the runner's position, the hook it runs, the child process
    rpc, rkind, child, stdout, stderr, log, result, trace

tableVars == <<table, cfg_incarnation, fs, tfs, pc, idx, config, call>>
runVars == <<rpc, rkind, child, stdout, stderr, log, result, trace>>
vars == <<table, cfg_incarnation, fs, tfs, pc, idx, config, call, rpc, rkind, child, stdout, stderr, log, result, trace>>

(* ------------------------------------------------------------------ *)
(* Discovery: Hook::load, RenderPair::new, HookTable::load_hooks       *)
(* ------------------------------------------------------------------ *)
\* the destination directory handed to load_hooks
HookDirs == {"hooks"}

\* what load_hooks can find at the template path: nothing, a plain file, or a
\* directory holding, per kind, no file, a template or a malformed template
EntryStates == {"absent", "ok", "malformed"}

NoEntries == [k \in Kinds |-> "absent"]

TemplateTrees ==
    {[dir |-> "absent", entries |-> NoEntries], [dir |-> "file", entries |-> NoEntries]}
    \cup {[dir |-> "dir", entries |-> e] :
            e \in {f \in [Kinds -> EntryStates] :
                     Cardinality({k \in Kinds : f[k] /= "absent"}) <= MaxTemplates}}

\* std::fs::metadata(path).ok() on the template directory
metadata_dir(t) == IF t.dir = "absent" THEN None ELSE Some([is_dir |-> t.dir = "dir"])

\* std::fs::metadata(&template) of Hook::load: Ok iff the entry exists
metadata_entry(t, k) == t.dir = "dir" /\ t.entries[k] /= "absent"

\* RenderPair::new: register_template_file fails on a malformed template
RenderPair_new(concrete, t, k) ==
    IF t.entries[k] = "ok"
    THEN [ok |-> TRUE, val |-> [path |-> concrete, template |-> k]]
    ELSE [ok |-> FALSE, val |-> "TemplateError"]

\* Hook::load
Hook_load(k, hooks, t) ==
    LET concrete == <<hooks, file_name(k)>>
    IN  IF metadata_entry(t, k)
        THEN LET r == RenderPair_new(concrete, t, k)
             IN  IF r.ok THEN Some(r.val) ELSE None
        ELSE None

\* HookTable::load_hooks: the table it returns
load_hooks(self, hooks, t) ==
    LET meta == metadata_dir(t)
    IN  IF IsSome(meta) /\ Unwrap(meta).is_dir
        THEN [k \in Kinds |-> Hook_load(k, hooks, t)]
        ELSE self

LoadHooks ==
    /\ pc = "idle"
    /\ \E hooks \in HookDirs, t \in TemplateTrees :
          /\ table' = load_hooks(table, hooks, t)
          /\ tfs' = t
    /\ UNCHANGED <<cfg_incarnation, fs, pc, idx, config, call>>
    /\ UNCHANGED runVars

(* ------------------------------------------------------------------ *)
(* Compilation: Hook::compile, HookTable::compile_one, ::compile       *)
(* ------------------------------------------------------------------ *)
\* the user the supervisor runs as, and cfg.pkg.svc_user / svc_group
SUP_USER == "root"
SVC_USER == "hab"

\* rendering contexts of a ServiceConfig; "bad" is one cfg.to_toml() fails on
Contexts == {"a"}
Configs == [incarnation : 0..MaxInc, ctx : Contexts \cup {"bad"}]
NoConfig == [incarnation |-> 0, ctx |-> "a"]

\* the step of Hook::compile the environment fails, if any
Faults == {"none", "render", "create", "write_all", "set_owner", "set_permissions"}

\* cfg.to_toml()
to_toml(cfg) == IF cfg.ctx = "bad" THEN [ok |-> FALSE] ELSE [ok |-> TRUE, val |-> cfg.ctx]

\* self.template().render("hook", &svc_data): the text depends on the template
\* and the context only, not on the incarnation
render(template, data) == <<template, data>>

\* std::fs::File::create: a new empty file owned by the supervisor, or the
\* existing file truncated (owner and mode kept)
File_create(f) ==
    IF f = None
    THEN Some([data |-> "", owner |-> SUP_USER, mode |-> CREATE_MODE])
    ELSE Some([Unwrap(f) EXCEPT !.data = ""])

write_all(f, data) == Some([Unwrap(f) EXCEPT !.data = data])
set_owner(f, user) == Some([Unwrap(f) EXCEPT !.owner = user])
\* set_permissions leaving the mode as it was
set_permissions_noop(f, mode) == f
set_permissions(f, mode) == Some([Unwrap(f) EXCEPT !.mode = mode])

\* Hook::compile on destination file f: the Result, the file afterwards and
\* whether the file system was written. Each try! returns at the first failure.
Hook_compile(hook, cfg, fault, f) ==
    LET toml == to_toml(cfg)
        unchanged == [ok |-> FALSE, file |-> f, wrote |-> FALSE]
    IN  IF ~toml.ok \/ fault = "render" \/ fault = "create"
        THEN unchanged
        ELSE LET f1 == File_create(f)
                 f2 == write_all(f1, render(hook.template, toml.val))
                 f3 == set_owner(f2, SVC_USER)
                 f4 == set_permissions(f3, HOOK_PERMISSIONS)
             IN  CASE fault = "write_all" -> [ok |-> FALSE, file |-> f1, wrote |-> TRUE]
                   [] fault = "set_owner" -> [ok |-> FALSE, file |-> f2, wrote |-> TRUE]
                   [] fault = "set_permissions" -> [ok |-> FALSE, file |-> f3, wrote |-> TRUE]
                   [] OTHER -> [ok |-> TRUE, file |-> f4, wrote |-> TRUE]

\* the guard left out: every call proceeds
compile_skips_never(self_incarnation, incarnation) == FALSE

\* the guard skipping an equal incarnation only
compile_skips_equal(self_incarnation, incarnation) ==
    self_incarnation /= 0 /\ incarnation = self_incarnation

\* the guard with its comparison inverted
compile_skips_inverted(self_incarnation, incarnation) ==
    self_incarnation /= 0 /\ incarnation >= self_incarnation

\* the guard of HookTable::compile (line 368): the call returns at once
compile_skips(self_incarnation, incarnation) ==
    self_incarnation /= 0 /\ incarnation <= self_incarnation

\* the store of line 374 left out
compile_store_missing(self_incarnation, incarnation) == self_incarnation

\* line 374: the incarnation the table holds once the call was not skipped
compile_store(self_incarnation, incarnation) == incarnation

\* compile_one written with try!: the error of Hook::compile reaches compile
compile_one_try(hook, cfg, fault, f) ==
    LET r == Hook_compile(hook, cfg, fault, f)
    IN  [ok |-> r.ok, file |-> r.file, wrote |-> r.wrote, raised |-> ~r.ok]

\* HookTable::compile_one: Hook::compile, its error logged and dropped
\* (raised: the error reaches the caller of compile_one)
compile_one(hook, cfg, fault, f) ==
    LET r == Hook_compile(hook, cfg, fault, f)
    IN  [ok |-> r.ok, file |-> r.file, wrote |-> r.wrote, raised |-> FALSE]

\* the record kept of a compile call: its incarnation, how that compared with
\* cfg_incarnation when the call was made (rel), whether the call before it
\* had the same incarnation (again), the hooks it compiled and how each
\* ended, whether it wrote to the file system
NewCall(cfg, skipped) ==
    [inc |-> cfg.incarnation, skipped |-> skipped,
     rel |-> IF cfg.incarnation > cfg_incarnation THEN "greater"
             ELSE IF cfg.incarnation = cfg_incarnation THEN "equal" ELSE "less",
     again |-> call /= None /\ Unwrap(call).inc = cfg.incarnation,
     attempts |-> <<>>, wrote |-> FALSE, returned |-> skipped]

\* the position of the first field at or after i that holds a hook (past the
\* last field when none does): an `if let Some` on a None field does nothing
NextSome(self, i) ==
    LET rest == {j \in i..Len(KindOrder) : IsSome(self[KindOrder[j]])}
    IN  IF rest = {} THEN Len(KindOrder) + 1
        ELSE CHOOSE j \in rest : \A j2 \in rest : j <= j2

\* HookTable::compile up to line 374: skip, or store the incarnation
CompileCall ==
    /\ pc = "idle"
    /\ rpc = "idle"
    /\ \E cfg \in Configs :
          IF compile_skips(cfg_incarnation, cfg.incarnation)
          THEN /\ call' = Some(NewCall(cfg, TRUE))
               /\ UNCHANGED <<cfg_incarnation, pc, idx, config>>
          ELSE /\ cfg_incarnation' = compile_store(cfg_incarnation, cfg.incarnation)
               /\ call' = Some(NewCall(cfg, FALSE))
               /\ pc' = "compiling"
               /\ idx' = NextSome(table, 1)
               /\ config' = cfg
    /\ UNCHANGED <<table, fs, tfs>>
    /\ UNCHANGED runVars

\* a compile that takes a hook out of the table when it fails to compile
CompileOne_drops_failed ==
    /\ pc = "compiling"
    /\ idx <= Len(KindOrder)
    /\ LET k == KindOrder[idx]
       IN  /\ IsSome(table[k])
           /\ \E fault \in Faults :
                LET hook == Unwrap(table[k])
                    r == compile_one(hook, config, fault, fs[hook.path])
                IN  /\ fs' = [fs EXCEPT ![hook.path] = r.file]
                    /\ call' = Some([Unwrap(call) EXCEPT
                                  !.attempts = Append(@, [kind |-> k, ok |-> r.ok]),
                                  !.wrote = @ \/ r.wrote])
                    /\ idx' = NextSome(table, idx + 1)
                    /\ table' = IF r.ok THEN table ELSE [table EXCEPT ![k] = None]
    /\ UNCHANGED <<cfg_incarnation, tfs, pc, config>>
    /\ UNCHANGED runVars

\* lines 375-392: the next field of the table that holds a hook:
\* compile_one runs Hook::compile, logs a failure and returns
CompileOne ==
    /\ pc = "compiling"
    /\ idx <= Len(KindOrder)
    /\ LET k == KindOrder[idx]
       IN  /\ IsSome(table[k])
           /\ \E fault \in Faults :
                LET hook == Unwrap(table[k])
                    r == compile_one(hook, config, fault, fs[hook.path])
                IN  /\ fs' = [fs EXCEPT ![hook.path] = r.file]
                    /\ call' = Some([Unwrap(call) EXCEPT
                                  !.attempts = Append(@, [kind |-> k, ok |-> r.ok]),
                                  !.wrote = @ \/ r.wrote])
                    /\ idx' = IF r.raised THEN Len(KindOrder) + 1
                                          ELSE NextSome(table, idx + 1)
    /\ UNCHANGED <<table, cfg_incarnation, tfs, pc, config>>
    /\ UNCHANGED runVars

\* line 393-394: compile returns
CompileReturn ==
    /\ pc = "compiling"
    /\ idx > Len(KindOrder)
    /\ pc' = "idle"
    /\ idx' = 0
    /\ config' = NoConfig
    /\ call' = Some([Unwrap(call) EXCEPT !.returned = TRUE])
    /\ UNCHANGED <<table, cfg_incarnation, fs, tfs>>
    /\ UNCHANGED runVars

(* ------------------------------------------------------------------ *)
(* Exit values: Default and handle_exit of each hook kind              *)
(* ------------------------------------------------------------------ *)
\* health::HealthCheck::default()
HealthCheck_default == "Unknown"

\* health::SmokeCheck::default()
SmokeCheck_default == [tag |-> "Failed", code |-> -1]

\* the exit codes a hook script ends with; ExitStatus::code() is None when a
\* signal ended it
ExitCodes == {0, 1, 2, 3, 7, 130}
ExitStatuses == {None} \cup {Some(c) : c \in ExitCodes}

\* ExitStatus::code() and ExitStatus::success()
code(status) == status
success(status) == status = Some(0)

\* handle_exit taking any exit with a code for success
FileUpdatedHook_handle_exit_any_code(status) == IsSome(code(status))

\* FileUpdatedHook::handle_exit
FileUpdatedHook_handle_exit(status) == success(status)

\* handle_exit with the arms of codes 1 and 2 exchanged
HealthCheckHook_handle_exit_swapped(status) ==
    CASE code(status) = Some(0) -> "Ok"
      [] code(status) = Some(1) -> "Critical"
      [] code(status) = Some(2) -> "Warning"
      [] code(status) = Some(3) -> "Unknown"
      [] OTHER -> HealthCheck_default

\* HealthCheckHook::handle_exit
HealthCheckHook_handle_exit(status) ==
    CASE code(status) = Some(0) -> "Ok"
      [] code(status) = Some(1) -> "Warning"
      [] code(status) = Some(2) -> "Critical"
      [] code(status) = Some(3) -> "Unknown"
      [] OTHER -> HealthCheck_default

\* handle_exit giving 0 for a status without a code
ExitCodeHook_handle_exit_zero(status) ==
    IF IsSome(code(status)) THEN Unwrap(code(status)) ELSE 0

\* InitHook::handle_exit, ReconfigureHook::handle_exit, RunHook::handle_exit
ExitCodeHook_handle_exit(status) ==
    IF IsSome(code(status)) THEN Unwrap(code(status)) ELSE ExitCode_default

\* handle_exit without the arm of code 0
SmokeTestHook_handle_exit_no_ok(status) ==
    CASE IsSome(code(status)) -> [tag |-> "Failed", code |-> Unwrap(code(status))]
      [] OTHER -> [tag |-> "Failed", code |-> -1]

\* SmokeTestHook::handle_exit
SmokeTestHook_handle_exit(status) ==
    CASE code(status) = Some(0) -> [tag |-> "Ok"]
      [] IsSome(code(status)) -> [tag |-> "Failed", code |-> Unwrap(code(status))]
      [] OTHER -> [tag |-> "Failed", code |-> -1]

\* Hook::handle_exit of kind k
handle_exit(k, status) ==
    CASE k = "file_updated" -> FileUpdatedHook_handle_exit(status)
      [] k = "health_check" -> HealthCheckHook_handle_exit(status)
      [] k = "smoke_test" -> SmokeTestHook_handle_exit(status)
      [] OTHER -> ExitCodeHook_handle_exit(status)

\* the defaults with that of bool taken to be true
ExitValue_default_true(k) ==
    CASE k = "file_updated" -> TRUE
      [] k = "health_check" -> HealthCheck_default
      [] k = "smoke_test" -> SmokeCheck_default
      [] OTHER -> ExitCode_default

\* the defaults a derived Default would give: ExitCode(0)
ExitValue_default_derived(k) ==
    CASE k = "file_updated" -> FALSE
      [] k = "health_check" -> HealthCheck_default
      [] k = "smoke_test" -> SmokeCheck_default
      [] OTHER -> 0

\* Self::ExitValue::default() of kind k
ExitValue_default(k) ==
    CASE k = "file_updated" -> FALSE
      [] k = "health_check" -> HealthCheck_default
      [] k = "smoke_test" -> SmokeCheck_default
      [] OTHER -> ExitCode_default

(* ------------------------------------------------------------------ *)
(* Hook::run and stream_output                                         *)
(* ------------------------------------------------------------------ *)
Fds == {"stdout", "stderr"}

\* what the child does next: write a line (of valid UTF-8 or not) to one of
\* its two streams, or exit
Exit == [fd |-> "none", utf8 |-> TRUE]
ChildSteps == [fd : Fds, utf8 : BOOLEAN] \cup {Exit}

Pipe(fd) == IF fd = "stdout" THEN stdout ELSE stderr

\* util::create_command: both streams of the child are pipes
create_command_piped(fd) == TRUE

\* the lines the child has written
Written == IF child = None THEN <<>> ELSE Unwrap(child).written

\* line 97-105: spawn the script; on failure return the default at once
RunSpawn ==
    /\ rpc = "idle"
    /\ pc = "idle"
    /\ \E k \in {h \in Kinds : IsSome(table[h])} :
          /\ rkind' = k
          /\ \/ /\ rpc' = "returned"
                /\ result' = Some(ExitValue_default(k))
                /\ child' = None
                /\ trace' = <<"spawn">>
             \/ /\ rpc' = "stdout"
                /\ result' = None
                /\ \E first \in ChildSteps :
                      child' = Some([open |-> TRUE, next |-> first, written |-> <<>>,
                                      status |-> None])
                /\ trace' = <<"spawn", "stream_output">>
    /\ stdout' = <<>>
    /\ stderr' = <<>>
    /\ log' = <<>>
    /\ UNCHANGED tableVars

\* the child writes its next line: write(2) returns once the pipe has room
ChildWrite ==
    /\ child /= None
    /\ LET c == Unwrap(child)
       IN  /\ c.open
           /\ c.next /= Exit
           /\ Len(Pipe(c.next.fd)) < PipeCap
           /\ LET line == [fd |-> c.next.fd, n |-> Len(c.written) + 1, utf8 |-> c.next.utf8]
              IN  /\ stdout' = IF line.fd = "stdout" THEN Append(stdout, line) ELSE stdout
                  /\ stderr' = IF line.fd = "stderr" THEN Append(stderr, line) ELSE stderr
                  /\ \E nxt \in ChildSteps :
                        /\ nxt /= Exit => Len(c.written) + 1 < MaxLines
                        /\ child' = Some([c EXCEPT !.next = nxt,
                                                   !.written = Append(@, line)])
    /\ UNCHANGED <<rpc, rkind, log, result, trace>>
    /\ UNCHANGED tableVars

\* the child exits: the write ends of both pipes close
ChildExit ==
    /\ child /= None
    /\ Unwrap(child).open
    /\ Unwrap(child).next = Exit
    /\ child' = Some([Unwrap(child) EXCEPT !.open = FALSE])
    /\ UNCHANGED <<rpc, rkind, stdout, stderr, log, result, trace>>
    /\ UNCHANGED tableVars

\* BufReader::lines(): Ok(text) for a line of valid UTF-8, Err for another
lines_item(line) == IF line.utf8 THEN [ok |-> TRUE, val |-> line] ELSE [ok |-> FALSE]

\* the log after one iteration of a loop of stream_output: line.ok() drops
\* an Err, outputln! forwards the text of an Ok
forward(sink, item) ==
    IF item.ok THEN Append(sink, [fd |-> item.val.fd, n |-> item.val.n]) ELSE sink

\* lines 463-469: the loop over standard output, one line per step
ReadStdout ==
    /\ rpc = "stdout"
    /\ create_command_piped("stdout")
    /\ stdout /= <<>>
    /\ log' = forward(log, lines_item(Head(stdout)))
    /\ stdout' = Tail(stdout)
    /\ UNCHANGED <<rpc, rkind, child, stderr, result, trace>>
    /\ UNCHANGED tableVars

\* stream_output returning after the loop over standard output
StdoutEof_returns ==
    /\ rpc = "stdout"
    /\ \/ ~create_command_piped("stdout")
       \/ stdout = <<>> /\ ~Unwrap(child).open
    /\ rpc' = "wait"
    /\ UNCHANGED <<rkind, child, stdout, stderr, log, result, trace>>
    /\ UNCHANGED tableVars

\* the loop over standard output ends at end of file
StdoutEof ==
    /\ rpc = "stdout"
    /\ \/ ~create_command_piped("stdout")
       \/ stdout = <<>> /\ ~Unwrap(child).open
    /\ rpc' = "stderr"
    /\ UNCHANGED <<rkind, child, stdout, stderr, log, result, trace>>
    /\ UNCHANGED tableVars

\* lines 470-476: the loop over standard error
ReadStderr ==
    /\ rpc = "stderr"
    /\ create_command_piped("stderr")
    /\ stderr /= <<>>
    /\ log' = forward(log, lines_item(Head(stderr)))
    /\ stderr' = Tail(stderr)
    /\ UNCHANGED <<rpc, rkind, child, stdout, result, trace>>
    /\ UNCHANGED tableVars

\* the loop over standard error ends at end of file; stream_output returns
StderrEof ==
    /\ rpc = "stderr"
    /\ \/ ~create_command_piped("stderr")
       \/ stderr = <<>> /\ ~Unwrap(child).open
    /\ rpc' = "wait"
    /\ UNCHANGED <<rkind, child, stdout, stderr, log, result, trace>>
    /\ UNCHANGED tableVars

\* lines 107-114: child.wait() returns once the child has exited
Wait ==
    /\ rpc = "wait"
    /\ ~Unwrap(child).open
    /\ \/ \E status \in ExitStatuses :
            /\ result' = Some(handle_exit(rkind, status))
            /\ child' = Some([Unwrap(child) EXCEPT !.status = Some(status)])
            /\ trace' = trace \o <<"wait", "handle_exit">>
       \/ /\ result' = Some(ExitValue_default(rkind))
          /\ child' = child
          /\ trace' = Append(trace, "wait")
    /\ rpc' = "returned"
    /\ UNCHANGED <<rkind, stdout, stderr, log>>
    /\ UNCHANGED tableVars

\* the caller has the outcome; the hook can be run again
RunDone ==
    /\ rpc = "returned"
    /\ rpc' = "idle"
    /\ rkind' = "run"
    /\ child' = None
    /\ stdout' = <<>>
    /\ stderr' = <<>>
    /\ log' = <<>>
    /\ result' = None
    /\ trace' = <<>>
    /\ UNCHANGED tableVars

Paths == HookDirs \X Kinds

\* no hook is being run
RunIdle ==
    /\ rpc = "idle"
    /\ rkind = "run"
    /\ child = None
    /\ stdout = <<>>
    /\ stderr = <<>>
    /\ log = <<>>
    /\ result = None
    /\ trace = <<>>

\* no compile call was made
CompileIdle ==
    /\ cfg_incarnation = 0
    /\ fs = [p \in Paths |-> None]
    /\ pc = "idle"
    /\ idx = 0
    /\ config = NoConfig
    /\ call = None

\* HookTable::default()
HookTable_default == [k \in Kinds |-> None]

\* discovery starts from HookTable::default()
LoadInit ==
    /\ table = HookTable_default
    /\ tfs = [dir |-> "absent", entries |-> NoEntries]
    /\ CompileIdle
    /\ RunIdle

LoadNext == LoadHooks

LoadSpec == LoadInit /\ [][LoadNext]_vars

\* the table a service is built with: HookTable::default().load_hooks(..).
\* A malformed template gives the table its absence gives, so the template
\* directories without one give every table.
Init ==
    /\ \E hooks \in HookDirs,
          t \in {u \in TemplateTrees : \A k \in Kinds : u.entries[k] /= "malformed"} :
          /\ tfs = t
          /\ table = load_hooks(HookTable_default, hooks, t)
    /\ CompileIdle
    /\ RunIdle

Next == CompileCall \/ CompileOne \/ CompileReturn

Spec == Init /\ [][Next]_vars

RunNext ==
    \/ RunSpawn \/ ChildWrite \/ ChildExit \/ ReadStdout \/ StdoutEof
    \/ ReadStderr \/ StderrEof \/ Wait \/ RunDone

\* a hook of a discovered table is run
RunSpec == Init /\ [][RunNext]_vars

\* what Hook::run can return for kind k: the default of lines 103 and 112,
\* or handle_exit of the status child.wait() gave (line 108)
run_outcomes(k) ==
    {ExitValue_default(k)} \cup {handle_exit(k, status) : status \in ExitStatuses}

\* Hook::run from call to return as one step, for a caller that only sees
\* what it returns: it takes &self and leaves the table as it was
Hook_run ==
    /\ pc = "idle"
    /\ rpc = "idle"
    /\ \E k \in Kinds :
          /\ IsSome(table[k])
          /\ rkind' = k
          /\ \E outcome \in run_outcomes(k) : result' = Some(outcome)
    /\ rpc' = "returned"
    /\ trace' = <<"run">>
    /\ UNCHANGED <<child, stdout, stderr, log>>
    /\ UNCHANGED tableVars

\* a service whose template directory holds run and health_check
ServiceInit ==
    /\ \E hooks \in HookDirs :
          /\ tfs = [dir |-> "dir",
                    entries |-> [k \in Kinds |->
                        IF k \in {"run", "health_check"} THEN "ok" ELSE "absent"]]
          /\ table = load_hooks(HookTable_default, hooks, tfs)
    /\ CompileIdle
    /\ RunIdle

ServiceNext == Next \/ Hook_run \/ RunDone

\* the life of a service: its hooks are compiled and run in any order, one
\* call at a time
ServiceSpec == ServiceInit /\ [][ServiceNext]_vars

(* ------------------------------------------------------------------ *)
(* Properties                                                          *)
(* ------------------------------------------------------------------ *)
Present == {k \in Kinds : IsSome(table[k])}
Index(k) == CHOOSE i \in 1..Len(KindOrder) : KindOrder[i] = k
Attempted(c) == {c.attempts[i].kind : i \in 1..Len(c.attempts)}

\* C1: of two compile calls in a row with the same incarnation, the second
\* writes nothing to the file system (for every incarnation, 0 on a fresh
\* table included)
C1_SameIncarnationWritesOnce ==
    call /= None => (Unwrap(call).again => ~Unwrap(call).wrote)

\* C2: a compile call whose incarnation is strictly greater than
\* cfg_incarnation is not skipped, and when it returns Hook::compile has been
\* tried once for every hook the table holds
C2_GreaterIncarnationCompilesAll ==
    call /= None =>
        LET c == Unwrap(call)
        IN  c.rel = "greater" =>
              /\ ~c.skipped
              /\ c.returned =>
                    /\ Attempted(c) = Present
                    /\ Len(c.attempts) = Cardinality(Present)

C2_Witness ==
    /\ call /= None
    /\ Unwrap(call).rel = "greater"
    /\ Unwrap(call).returned
    /\ Unwrap(call).inc = MaxInc
    /\ Len(Unwrap(call).attempts) = 2
    /\ \E p \in Paths : fs[p] /= None /\ Unwrap(fs[p]).mode = HOOK_PERMISSIONS

\* C4: in a compile pass that is not skipped, whatever step of whichever hook
\* fails, the pass goes on to every other hook the table holds and returns:
\* while it runs, every hook before the current field has been tried, and
\* when it has returned, every hook of the table has
C4_FailureIsolation ==
    call /= None =>
        LET c == Unwrap(call)
        IN  ~c.skipped =>
              IF c.returned
              THEN pc = "idle" /\ Attempted(c) = Present
              ELSE pc = "compiling"
                   /\ Attempted(c) = {k \in Present : Index(k) < idx}

C4_Witness ==
    /\ call /= None
    /\ Unwrap(call).returned
    /\ Len(Unwrap(call).attempts) = 2
    /\ ~Unwrap(call).attempts[1].ok
    /\ Unwrap(call).attempts[2].ok

\* C5: from the moment a compile call is not skipped (before any hook is
\* compiled) until after it has returned, cfg_incarnation is the incarnation
\* of the call's configuration, also when every hook failed
C5_IncarnationStoredFirst ==
    call /= None =>
        (~Unwrap(call).skipped => cfg_incarnation = Unwrap(call).inc)

C5_Witness ==
    /\ call /= None
    /\ Unwrap(call).returned
    /\ ~Unwrap(call).skipped
    /\ Unwrap(call).inc = MaxInc
    /\ Len(Unwrap(call).attempts) = 2
    /\ \A i \in 1..2 : ~Unwrap(call).attempts[i].ok

\* the child waits for room in the pipe of fd
WriterBlocked(fd) ==
    /\ child /= None
    /\ Unwrap(child).open
    /\ Unwrap(child).next /= Exit
    /\ Unwrap(child).next.fd = fd
    /\ Len(Pipe(fd)) >= PipeCap

\* the runner waits for a line or the end of the pipe of fd
ReaderBlocked(fd) ==
    /\ rpc = fd
    /\ Pipe(fd) = <<>>
    /\ child /= None
    /\ Unwrap(child).open

\* C3: the child is never blocked writing to the full pipe of one stream
\* while the runner is blocked reading the other stream
C3_NoCrossStreamBlock ==
    \A fd \in Fds : \A other \in Fds \ {fd} :
        ~(WriterBlocked(fd) /\ ReaderBlocked(other))

\* the numbers of the lines of stream fd in a sequence of lines
LinesOf(seq, fd) ==
    LET onFd(l) == l.fd = fd
        sel == SelectSeq(seq, onFd)
    IN  [i \in 1..Len(sel) |-> sel[i].n]

\* C6: when run returns the outcome of a child it spawned, the log holds, for
\* each stream, exactly the lines the child wrote to it, once each and in the
\* order written
C6_NoOutputLost ==
    (rpc = "returned" /\ child /= None) =>
        \A fd \in Fds : LinesOf(log, fd) = LinesOf(Written, fd)

\* the default the claims name for each kind
ExpectedDefault(k) ==
    CASE k = "file_updated" -> FALSE
      [] k = "health_check" -> HealthCheck_default
      [] k = "smoke_test" -> SmokeCheck_default
      [] OTHER -> -1

\* C7: when the spawn fails, run returns the default of the hook's kind at
\* once: nothing was read from a stream or logged, no wait was made and
\* handle_exit was not called
C7_SpawnFailureReturnsDefault ==
    (rpc = "returned" /\ child = None) =>
        /\ result = Some(ExpectedDefault(rkind))
        /\ trace = <<"spawn">>
        /\ log = <<>>

C7_Witness ==
    /\ rpc = "returned"
    /\ child = None
    /\ rkind = "init"
    /\ result = Some(-1)

\* C8: after load_hooks a kind's entry is present only if its template file
\* exists and was bound, and is absent when the file does not exist
C8_DiscoveryMatchesTemplates ==
    \A k \in Kinds :
        /\ IsSome(table[k]) => metadata_entry(tfs, k) /\ tfs.entries[k] = "ok"
        /\ ~metadata_entry(tfs, k) => table[k] = None

\* C9: when the template directory does not exist or is no directory, the
\* table load_hooks returns holds no hook
C9_NoDirectoryNoHooks ==
    tfs.dir /= "dir" => \A k \in Kinds : table[k] = None

\* the outcome the claim gives for each exit status of a health check
ExpectedHealth(status) ==
    IF status = Some(0) THEN "Ok"
    ELSE IF status = Some(1) THEN "Warning"
    ELSE IF status = Some(2) THEN "Critical"
    ELSE "Unknown"

\* C10: a health check whose wait succeeded returns Ok for exit code 0,
\* Warning for 1, Critical for 2, Unknown for 3, for any other code and for
\* no code
C10_HealthCheckMapping ==
    (rpc = "returned" /\ rkind = "health_check" /\ child /= None) =>
        (IsSome(Unwrap(child).status) =>
            result = Some(ExpectedHealth(Unwrap(Unwrap(child).status))))

C10_Witness ==
    /\ rpc = "returned"
    /\ rkind = "health_check"
    /\ child /= None
    /\ Unwrap(child).status = Some(Some(7))
    /\ result = Some("Unknown")

\* the run has returned the outcome of a child it waited for with success
Reaped == rpc = "returned" /\ child /= None /\ IsSome(Unwrap(child).status)
ReapedStatus == Unwrap(Unwrap(child).status)

\* the outcome the claim gives for each exit status of a smoke test
ExpectedSmoke(status) ==
    IF status = Some(0) THEN [tag |-> "Ok"]
    ELSE IF status = None THEN [tag |-> "Failed", code |-> -1]
    ELSE [tag |-> "Failed", code |-> Unwrap(status)]

\* C11: a smoke test whose wait succeeded returns Ok for exit code 0,
\* Failed(N) for any other code N and Failed(-1) for no code
C11_SmokeTestMapping ==
    (Reaped /\ rkind = "smoke_test") => result = Some(ExpectedSmoke(ReapedStatus))

C11_Witness ==
    /\ Reaped
    /\ rkind = "smoke_test"
    /\ ReapedStatus = Some(7)
    /\ result = Some([tag |-> "Failed", code |-> 7])

\* C12: an init, run or reconfigure hook whose wait succeeded returns the
\* exit code N for every code N, and -1 when the process ended without one
C12_ExitCodeMapping ==
    (Reaped /\ rkind \in {"init", "run", "reconfigure"}) =>
        result = IF ReapedStatus = None THEN Some(-1) ELSE ReapedStatus

C12_Witness ==
    /\ Reaped
    /\ rkind = "run"
    /\ ReapedStatus = Some(130)
    /\ result = Some(130)

\* C13: the outcome of a file_updated hook is true exactly when the process
\* ended with exit code 0; a nonzero code, no code, a spawn failure and a
\* wait failure give false
C13_FileUpdatedTrueIffZero ==
    (rpc = "returned" /\ rkind = "file_updated") =>
        result = Some(Reaped /\ ReapedStatus = Some(0))

C13_Witness ==
    /\ Reaped
    /\ rkind = "file_updated"
    /\ ReapedStatus = Some(0)
    /\ result = Some(TRUE)

\* run returned without an exit code: the spawn failed, the wait failed, or
\* the process ended without a code
NoCodeObserved ==
    /\ rpc = "returned"
    /\ \/ child = None
       \/ Unwrap(child).status = None
       \/ Unwrap(child).status = Some(None)

\* C14: for every kind, what run returns when the spawn failed, the wait
\* failed or the process ended without a code differs from what it returns
\* for a process that ended with exit code 0
C14_SentinelIsNotSuccess ==
    NoCodeObserved => result /= Some(handle_exit(rkind, Some(0)))

C14_Witness ==
    /\ NoCodeObserved
    /\ child /= None
    /\ Unwrap(child).status = None
    /\ rkind = "reconfigure"
    /\ result = Some(-1)

\* a destination file with permission bits 0755 owned by the service user
OwnedAndExecutable(f) ==
    f /= None /\ Unwrap(f).mode = 493 /\ Unwrap(f).owner = "hab"

CompiledOk(p) ==
    /\ pc = "compiling"
    /\ call' /= None
    /\ Len(Unwrap(call').attempts) = Len(Unwrap(call).attempts) + 1
    /\ LET a == Unwrap(call').attempts[Len(Unwrap(call').attempts)]
       IN  a.ok /\ Unwrap(table[a.kind]).path = p

CalledWithLesser ==
    /\ pc = "idle"
    /\ call' /= None
    /\ call' /= call
    /\ Unwrap(call').inc < cfg_incarnation

\* C16: a compile call whose incarnation is strictly less than
\* cfg_incarnation returns at once: no hook is compiled, no file is written
\* and cfg_incarnation keeps its value
C16_LesserIncarnationSkipped ==
    [][CalledWithLesser =>
          /\ cfg_incarnation' = cfg_incarnation
          /\ fs' = fs
          /\ pc' = "idle"
          /\ Unwrap(call').skipped
          /\ Unwrap(call').returned
          /\ Unwrap(call').attempts = <<>>
          /\ ~Unwrap(call').wrote]_vars

\* a call with a lesser incarnation has returned on a table that had
\* compiled a file at a greater one
C16_Witness ==
    /\ call /= None
    /\ Unwrap(call).rel = "less"
    /\ Unwrap(call).inc < cfg_incarnation
    /\ Unwrap(call).skipped
    /\ pc = "idle"
    /\ \E p \in Paths : OwnedAndExecutable(fs[p])

\* C17: cfg_incarnation never decreases, whatever the incarnations of the
\* compile calls (0 included) and whatever hooks are run between them
C17_IncarnationMonotonic ==
    [][cfg_incarnation' >= cfg_incarnation]_vars

\* a hook was run after compile calls at a higher incarnation and then at
\* incarnation 0, and the table still holds the higher one
C17_Witness ==
    /\ rpc = "returned"
    /\ call /= None
    /\ Unwrap(call).inc = 0
    /\ Unwrap(call).skipped
    /\ cfg_incarnation = MaxInc
    /\ \E p \in Paths : fs[p] /= None

\* C19: no step of a compile call, skipped or not, with failing hooks or
\* without, and no run adds, removes or replaces a hook of the table or
\* changes its path, and a run leaves cfg_incarnation as it was
C19_TableFixedByDiscovery ==
    [][/\ table' = table
       /\ \A k \in Kinds : IsSome(table[k]) =>
             Unwrap(table'[k]).path = <<"hooks", file_name(k)>>
       /\ rpc' /= rpc => cfg_incarnation' = cfg_incarnation]_vars

\* a hook was run after a compile pass in which one hook failed and one
\* compiled, and after a skipped call; the table holds the hooks discovered
C19_Witness ==
    /\ rpc = "returned"
    /\ rkind = "health_check"
    /\ call /= None
    /\ Unwrap(call).skipped
    /\ cfg_incarnation > 0
    /\ fs[<<"hooks", "health_check">>] = None
    /\ OwnedAndExecutable(fs[<<"hooks", "run">>])
    /\ {k \in Kinds : IsSome(table[k])} = {"run", "health_check"}

\* C18: child.wait() is called only once both streams were read to end of
\* file; when it fails run returns the default of the kind and handle_exit
\* is not called, and when it succeeds run returns what handle_exit gives
\* for the status it observed
C18_WaitAfterDrainThenDecode ==
    /\ (rpc = "wait" \/ (rpc = "returned" /\ child /= None)) =>
          /\ stdout = <<>>
          /\ stderr = <<>>
          /\ ~Unwrap(child).open
    /\ (rpc = "returned" /\ child /= None) =>
          IF Unwrap(child).status = None
          THEN /\ result = Some(ExpectedDefault(rkind))
               /\ trace = <<"spawn", "stream_output", "wait">>
          ELSE /\ result = Some(handle_exit(rkind, ReapedStatus))
               /\ trace = <<"spawn", "stream_output", "wait", "handle_exit">>

\* a child wrote to both streams and exited, its output was forwarded, and
\* the wait failed: run returned the default of init
C18_Witness ==
    /\ rpc = "returned"
    /\ child /= None
    /\ Unwrap(child).status = None
    /\ rkind = "init"
    /\ result = Some(-1)
    /\ \A fd \in Fds : LinesOf(log, fd) /= <<>>
    /\ "handle_exit" \notin {trace[i] : i \in 1..Len(trace)}

\* the order the claim gives for the kinds
ClaimedOrder ==
    <<"file_updated", "health_check", "init", "reconfigure", "run", "smoke_test">>

\* the kinds of the first n hooks of the table in the claimed order
FirstPresent(n) ==
    LET IsPresent(k) == IsSome(table[k])
    IN  SubSeq(SelectSeq(ClaimedOrder, IsPresent), 1, n)

\* C20: in every compile pass that proceeds, the hooks compiled so far are
\* the first hooks of the table in the order file_updated, health_check,
\* init, reconfigure, run, smoke_test, one after the other, whether they
\* compiled or failed
C20_FixedCompileOrder ==
    (call /= None /\ ~Unwrap(call).skipped) =>
        LET attempts == Unwrap(call).attempts
        IN  /\ Len(attempts) <= Cardinality(Present)
            /\ [i \in 1..Len(attempts) |-> attempts[i].kind] = FirstPresent(Len(attempts))
            /\ Unwrap(call).returned => Len(attempts) = Cardinality(Present)

\* a pass over file_updated and init in which the first failed
C20_Witness ==
    /\ call /= None
    /\ Unwrap(call).returned
    /\ Len(Unwrap(call).attempts) = 2
    /\ Unwrap(call).attempts[1] = [kind |-> "file_updated", ok |-> FALSE]
    /\ Unwrap(call).attempts[2] = [kind |-> "init", ok |-> TRUE]

====
